---- MODULE Spec2Model ----
(***************************************************************************)
(* Model of the ribbon crate: the Ribbon trait (src/src/ribbon.rs), the    *)
(* fixed-size Band (src/src/band.rs) and the growable Tape                 *)
(* (src/src/tape.rs).                                                      *)
(*                                                                         *)
(* One behaviour follows one ribbon, a Band<LEN, _> or a Tape, built over  *)
(* the source 1..=source (a fused iterator of distinct items, like the     *)
(* integer ranges of the crate's tests) and driven by an arbitrary         *)
(* sequence of trait calls.  Every call is one action.  The variables      *)
(* op, arg, pre, ret, grew, pulls record the last call, the ribbon it was  *)
(* made on and what it gave back.                                          *)
(***************************************************************************)
EXTENDS Integers, Sequences, FiniteSets

\* ------------------------------------------------------------------ bounds
MaxLEN == 3
MaxSource == 5
MaxN == 2

\* Largest n passed to expand_n on a Tape.  The Tape's loop reads no oracle, so
\* it affords one more iteration: a growth, a failure and a call after it.
MaxTapeN == 3

\* --------------------------------------------------------------- constants
\* Option::None.  The items of the source are the integers 1, 2, 3, ...
None == 0

\* Peekable::peeked == None: the adapter holds no looked-ahead result.
NotPeeked == -1

\* usize arithmetic wraps modulo 2^64 in a build without overflow checks.
\* The model keeps the residues 2^64 has modulo every capacity up to 5 with
\* the modulus 2^16 (65535 = 3 * 5 * 17 * 257, so 2^16 and 2^64 agree
\* modulo 1..5), which keeps the numbers inside the model checker's range.
UsizeModulus == 2^16

VARIABLES
    kind,       \* "Band" or "Tape": the type the ribbon was constructed as
    LEN,        \* const generic LEN of Band<LEN, I>
    source,     \* the source is the iterator 1..=source
    band,       \* the Band { iter, tape, head, len }
    tape,       \* the Tape { iter: Peekable { iter, peeked }, tape }
    fifo,       \* abstract FIFO run side by side with the Band
    op,         \* the last call
    arg,        \* its argument (n of expand_n, the items the expand_while predicate accepts)
    pre,        \* the ribbon before the last call
    ret,        \* the Option<Item> the last call returned (None if it returns none)
    grew,       \* the bool the last call returned (FALSE if it returns none)
    pulls,      \* the number of next() calls the last call made on the source
    panicked,   \* the last call panicked: the ribbon is gone
    returned    \* the latest-pulled item pop_front, progress or next of the Band has
                \* returned so far (None if none has)

vars == <<kind, LEN, source, band, tape, fifo, op, arg, pre, ret, grew, pulls, panicked,
          returned>>

Items == 1..MaxSource

\* ------------------------------------------------------------ the source
\* I::next on the source 1..=source, `it` items already taken: the item and
\* the iterator after the call.  An exhausted range stays exhausted.
iter_next(it) ==
    IF it < source THEN [item |-> it + 1, iter |-> it + 1]
    ELSE [item |-> None, iter |-> it]

\* usize::saturating_sub
saturating_sub(a, c) == IF a >= c THEN a - c ELSE 0

\* ================================================================== Band
\* Band::new
band_new == [iter |-> 0, tape |-> [i \in 0..(LEN - 1) |-> None], head |-> 0, len |-> 0]

\* What a Band call gives back: the Band after it, the returned Option, the
\* number of pulls it made on the source, and whether it panicked.
BandRes(b, r, p, pan) == [b |-> b, ret |-> r, pulls |-> p, panic |-> pan]

\* Band::len
band_len(b) == b.len

\* Ribbon::is_empty on a Band
band_is_empty(b) == band_len(b) = 0

\* Band::is_full
is_full(b) == band_len(b) = LEN

\* Band::incr_head
incr_head(b) == [b EXCEPT !.head = (b.head + 1) % LEN]

\* Band::tail with the plain `self.len - 1`, wrapping at len = 0
tail_unchecked_sub(b) == (b.head + ((b.len - 1) % UsizeModulus)) % LEN

\* Band::tail
tail(b) == (b.head + saturating_sub(b.len, 1)) % LEN

\* Band::slide without `self.len = self.len.saturating_sub(1)`
slide_no_decrement(b) ==
    IF b.tape[b.head] = None THEN [b |-> b, ret |-> None]
    ELSE [b |-> incr_head([b EXCEPT !.tape[b.head] = None]), ret |-> b.tape[b.head]]

\* Band::slide: take the item at head; leave the Band alone if there is none
slide(b) ==
    IF b.tape[b.head] = None THEN [b |-> b, ret |-> None]
    ELSE LET taken == [b EXCEPT !.tape[b.head] = None]
             moved == incr_head(taken)
         IN  [b |-> [moved EXCEPT !.len = saturating_sub(moved.len, 1)],
              ret |-> b.tape[b.head]]

\* Band::progress sliding before it looks at what the source yields
band_progress_slide_first(b) ==
    LET nx == iter_next(b.iter)
        s == slide([b EXCEPT !.iter = nx.iter])
    IN  IF nx.item = None THEN BandRes(s.b, s.ret, 1, FALSE)
        ELSE LET b2 == [s.b EXCEPT !.len = @ + 1]
             IN  BandRes([b2 EXCEPT !.tape[tail(b2)] = nx.item], s.ret, 1, FALSE)

\* Band::progress sliding only when the Band is full
band_progress_slide_when_full(b) ==
    LET nx == iter_next(b.iter)
    IN  IF nx.item = None THEN BandRes(b, None, 1, FALSE)
        ELSE LET b1 == [b EXCEPT !.iter = nx.iter]
                 s == IF is_full(b1) THEN slide(b1) ELSE [b |-> b1, ret |-> None]
                 b2 == [s.b EXCEPT !.len = @ + 1]
             IN  BandRes([b2 EXCEPT !.tape[tail(b2)] = nx.item], s.ret, 1, FALSE)

\* Band::progress
band_progress(b) ==
    LET nx == iter_next(b.iter)
    IN  IF nx.item = None THEN BandRes(b, None, 1, FALSE)
        ELSE LET s == slide([b EXCEPT !.iter = nx.iter])
                 b2 == [s.b EXCEPT !.len = @ + 1]
             IN  BandRes([b2 EXCEPT !.tape[tail(b2)] = nx.item], s.ret, 1, FALSE)

\* Band::expand.  A full Band only slides: the source is not pulled and
\* nothing is stored.  Otherwise the result of next(), an item or None, is
\* written to the physical slot tape[len] and len grows by one.  The value
\* is evaluated before the place, so the source is pulled before an index
\* beyond the array panics.
band_expand(b) ==
    IF is_full(b) THEN BandRes(slide(b).b, None, 0, FALSE)
    ELSE LET nx == iter_next(b.iter)
             b1 == [b EXCEPT !.iter = nx.iter]
         IN  IF b.len >= LEN THEN BandRes(b1, None, 1, TRUE)
             ELSE BandRes([b1 EXCEPT !.tape[b.len] = nx.item, !.len = @ + 1],
                          None, 1, FALSE)

\* Band::expand stores an item: the Band is not full and the source yields
band_expand_stores(b) ==
    ~is_full(b) /\ b.len < LEN /\ iter_next(b.iter).item # None

\* Ribbon::expand_n on a Band.  The loop reads a bool from every expand
\* call, and Band::expand returns none.  The tests of band.rs (expand_n(5)
\* on a fresh Band<5> holds 5 items) fix what the loop reads from a call that
\* stores an item: true.  From a call that stores nothing the loop reads
\* rs[i], any value.  i is the loop counter, expanded the loop's flag, p the
\* pulls made so far; calls is the number of expand calls the loop made.
RECURSIVE band_expand_n_loop(_, _, _, _, _, _)
band_expand_n_loop(b, i, n, expanded, rs, p) ==
    IF i > n
    THEN [b |-> b, grew |-> expanded, pulls |-> p, panic |-> FALSE, calls |-> i - 1]
    ELSE LET e == band_expand(b)
             ex == expanded \/ band_expand_stores(b) \/ rs[i]
             out == [b |-> e.b, grew |-> ex, pulls |-> p + e.pulls, panic |-> e.panic,
                     calls |-> i]
         IN  IF e.panic THEN out
             ELSE IF ~ex THEN out
             ELSE band_expand_n_loop(e.b, i + 1, n, ex, rs, p + e.pulls)

band_expand_n(b, n, rs) == band_expand_n_loop(b, 1, n, FALSE, rs, 0)

\* Band::pop_front
band_pop_front(b) ==
    LET s == slide(b) IN BandRes(s.b, s.ret, 0, FALSE)

\* Band::pop_back.  `len -= 1` at len = 0 panics in a build with overflow
\* checks (oc) and wraps in one without.
band_pop_back(b, oc) ==
    LET back == b.tape[tail(b)]
        taken == [b EXCEPT !.tape[tail(b)] = None]
    IN  IF back = None THEN BandRes(b, None, 0, FALSE)
        ELSE IF b.len = 0 /\ oc THEN BandRes(taken, None, 0, TRUE)
        ELSE BandRes([taken EXCEPT !.len = (b.len - 1) % UsizeModulus], back, 0, FALSE)

\* Band::peek_at and Band::peek_at_mut: the item the reference points to
band_peek_at(b, index) ==
    IF index >= LEN THEN None
    ELSE b.tape[(b.head + index) % LEN]

band_peek_at_mut(b, index) ==
    IF index >= LEN THEN None
    ELSE b.tape[(b.head + index) % LEN]

\* Band::peek_front, Band::peek_front_mut
band_peek_front(b) == band_peek_at(b, 0)
band_peek_front_mut(b) == band_peek_at_mut(b, 0)

\* Band::peek_back, Band::peek_back_mut
band_peek_back(b) == band_peek_at(b, tail(b))
band_peek_back_mut(b) == band_peek_at_mut(b, tail(b))

\* Iterator::next of Band refilling on every call, empty or not
band_next_refill_always(b, rs) ==
    LET e == band_expand_n(b, LEN, rs)
        s == band_pop_front(e.b)
    IN  IF e.panic THEN [b |-> e.b, ret |-> None, pulls |-> e.pulls, panic |-> TRUE,
                         calls |-> e.calls]
        ELSE [b |-> s.b, ret |-> s.ret, pulls |-> e.pulls, panic |-> FALSE,
              calls |-> e.calls]

\* Iterator::next of Band
band_next(b, rs) ==
    LET e == IF band_is_empty(b) THEN band_expand_n(b, LEN, rs)
             ELSE [b |-> b, grew |-> FALSE, pulls |-> 0, panic |-> FALSE, calls |-> 0]
        s == band_pop_front(e.b)
    IN  IF e.panic THEN [b |-> e.b, ret |-> None, pulls |-> e.pulls, panic |-> TRUE,
                         calls |-> e.calls]
        ELSE [b |-> s.b, ret |-> s.ret, pulls |-> e.pulls, panic |-> FALSE,
              calls |-> e.calls]

\* ================================================================== Tape
\* Tape::new
tape_new == [iter |-> 0, peeked |-> NotPeeked, tape |-> <<>>]

TapeRes(t, r, g, p) == [t |-> t, ret |-> r, grew |-> g, pulls |-> p]

\* Peekable::next: the looked-ahead result if there is one, else the source's
peekable_next(t) ==
    IF t.peeked # NotPeeked
    THEN [item |-> t.peeked, t |-> [t EXCEPT !.peeked = NotPeeked], pulls |-> 0]
    ELSE LET nx == iter_next(t.iter)
         IN  [item |-> nx.item, t |-> [t EXCEPT !.iter = nx.iter], pulls |-> 1]

\* Peekable::peek dropping the result it pulled instead of keeping it
peekable_peek_forgets(t) ==
    IF t.peeked # NotPeeked THEN [item |-> t.peeked, t |-> t, pulls |-> 0]
    ELSE LET nx == iter_next(t.iter)
         IN  [item |-> nx.item, t |-> [t EXCEPT !.iter = nx.iter], pulls |-> 1]

\* Peekable::peek: pulls the source once and keeps the result
peekable_peek(t) ==
    IF t.peeked # NotPeeked THEN [item |-> t.peeked, t |-> t, pulls |-> 0]
    ELSE LET nx == iter_next(t.iter)
         IN  [item |-> nx.item, t |-> [t EXCEPT !.iter = nx.iter, !.peeked = nx.item],
              pulls |-> 1]

\* Tape::len
tape_len(t) == Len(t.tape)

\* Ribbon::is_empty on a Tape
tape_is_empty(t) == tape_len(t) = 0

\* Tape::pop_front (VecDeque::pop_front)
tape_pop_front(t) ==
    IF t.tape = <<>> THEN TapeRes(t, None, FALSE, 0)
    ELSE TapeRes([t EXCEPT !.tape = Tail(@)], Head(t.tape), FALSE, 0)

\* Tape::pop_back (VecDeque::pop_back)
tape_pop_back(t) ==
    IF t.tape = <<>> THEN TapeRes(t, None, FALSE, 0)
    ELSE TapeRes([t EXCEPT !.tape = SubSeq(@, 1, Len(@) - 1)],
                 t.tape[Len(t.tape)], FALSE, 0)

\* Tape::progress without `self.pop_front()`
tape_progress_no_pop(t) ==
    LET nx == peekable_next(t)
    IN  IF nx.item = None THEN TapeRes(nx.t, None, FALSE, nx.pulls)
        ELSE TapeRes([nx.t EXCEPT !.tape = Append(@, nx.item)],
                     IF nx.t.tape = <<>> THEN None ELSE Head(nx.t.tape), FALSE, nx.pulls)

\* Tape::progress
tape_progress(t) ==
    LET nx == peekable_next(t)
    IN  IF nx.item = None THEN TapeRes(nx.t, None, FALSE, nx.pulls)
        ELSE LET h == tape_pop_front(nx.t)
             IN  TapeRes([h.t EXCEPT !.tape = Append(@, nx.item)], h.ret, FALSE, nx.pulls)

\* Tape::expand with push_front in place of push_back
tape_expand_push_front(t) ==
    LET nx == peekable_next(t)
    IN  IF nx.item # None
        THEN TapeRes([nx.t EXCEPT !.tape = <<nx.item>> \o @], None, TRUE, nx.pulls)
        ELSE TapeRes(nx.t, None, FALSE, nx.pulls)

\* Tape::expand
tape_expand(t) ==
    LET nx == peekable_next(t)
    IN  IF nx.item # None
        THEN TapeRes([nx.t EXCEPT !.tape = Append(@, nx.item)], None, TRUE, nx.pulls)
        ELSE TapeRes(nx.t, None, FALSE, nx.pulls)

\* Ribbon::expand_n on a Tape
RECURSIVE tape_expand_n_loop(_, _, _, _, _)
tape_expand_n_loop(t, i, n, expanded, p) ==
    IF i > n THEN TapeRes(t, None, expanded, p)
    ELSE LET e == tape_expand(t)
             ex == expanded \/ e.grew
         IN  IF ~ex THEN TapeRes(e.t, None, ex, p + e.pulls)
             ELSE tape_expand_n_loop(e.t, i + 1, n, ex, p + e.pulls)

tape_expand_n(t, n) == tape_expand_n_loop(t, 1, n, FALSE, 0)

\* Tape::expand_while with the predicate |item| accept.contains(item)
RECURSIVE tape_expand_while_loop(_, _, _, _)
tape_expand_while_loop(t, accept, expanded, p) ==
    LET pk == peekable_peek(t)
    IN  IF pk.item # None /\ pk.item \in accept
        THEN LET e == tape_expand(pk.t)
             IN  tape_expand_while_loop(e.t, accept, TRUE, p + pk.pulls + e.pulls)
        ELSE TapeRes(pk.t, None, expanded, p + pk.pulls)

tape_expand_while(t, accept) == tape_expand_while_loop(t, accept, FALSE, 0)

\* Tape::peek_at and Tape::peek_at_mut (VecDeque::get, VecDeque::get_mut)
tape_peek_at(t, index) ==
    IF index < Len(t.tape) THEN t.tape[index + 1] ELSE None

tape_peek_at_mut(t, index) ==
    IF index < Len(t.tape) THEN t.tape[index + 1] ELSE None

\* Tape::peek_front (VecDeque::front), Tape::peek_back (VecDeque::back)
tape_peek_front(t) == IF t.tape = <<>> THEN None ELSE Head(t.tape)
tape_peek_back(t) == IF t.tape = <<>> THEN None ELSE t.tape[Len(t.tape)]

\* Iterator::next of Tape expanding on every call, empty or not
tape_next_expand_always(t) ==
    LET e == tape_expand(t)
        h == tape_pop_front(e.t)
    IN  TapeRes(h.t, h.ret, FALSE, e.pulls)

\* Iterator::next of Tape
tape_next(t) ==
    LET e == IF tape_is_empty(t) THEN tape_expand(t) ELSE TapeRes(t, None, FALSE, 0)
        h == tape_pop_front(e.t)
    IN  TapeRes(h.t, h.ret, FALSE, e.pulls)

\* ======================================================== abstract FIFO
\* The FIFO the Band is meant to be (spec 4.1, 4.2), run side by side with
\* it over its own copy of the source: an append for every call of progress
\* or expand made while the source yields, the first item dropped when
\* expand finds the FIFO at capacity, when progress finds an item to pass
\* through (tests/mod.rs test_band) and on pop_front, the last on pop_back.
fifo_new == [iter |-> 0, items |-> <<>>]

fifo_progress(f) ==
    LET nx == iter_next(f.iter)
    IN  IF nx.item = None THEN f
        ELSE [iter |-> nx.iter,
              items |-> Append(IF f.items = <<>> THEN f.items ELSE Tail(f.items), nx.item)]

fifo_expand(f) ==
    LET nx == iter_next(f.iter)
    IN  IF nx.item = None THEN f
        ELSE [iter |-> nx.iter,
              items |-> Append(IF Len(f.items) = LEN THEN Tail(f.items) ELSE f.items, nx.item)]

RECURSIVE fifo_expand_times(_, _)
fifo_expand_times(f, k) == IF k = 0 THEN f ELSE fifo_expand_times(fifo_expand(f), k - 1)

fifo_pop_front(f) == IF f.items = <<>> THEN f ELSE [f EXCEPT !.items = Tail(@)]

fifo_pop_back(f) ==
    IF f.items = <<>> THEN f ELSE [f EXCEPT !.items = SubSeq(@, 1, Len(@) - 1)]

\* ================================================================ actions
Init ==
    /\ kind \in {"Band", "Tape"}
    /\ LEN \in 1..MaxLEN
    /\ kind = "Tape" => LEN = 1
    /\ source \in 0..MaxSource
    /\ band = band_new
    /\ tape = tape_new
    /\ fifo = fifo_new
    /\ op = "new"
    /\ arg = 0
    /\ pre = IF kind = "Band" THEN band_new ELSE tape_new
    /\ ret = None
    /\ grew = FALSE
    /\ pulls = 0
    /\ panicked = FALSE
    /\ returned = None

\* A call on the Band: r is what the call gives back, g the bool it returns
BandCall(name, a, r, g, f) ==
    /\ kind = "Band"
    /\ ~panicked
    /\ band' = r.b
    /\ ret' = r.ret
    /\ grew' = g
    /\ pulls' = r.pulls
    /\ panicked' = r.panic
    /\ op' = name
    /\ arg' = a
    /\ pre' = band
    /\ fifo' = f
    /\ returned' = IF name \in {"pop_front", "progress", "next"} /\ r.ret > returned
                   THEN r.ret ELSE returned
    /\ UNCHANGED <<kind, LEN, source, tape>>

BandProgress == BandCall("progress", 0, band_progress(band), FALSE, fifo_progress(fifo))

BandExpand == BandCall("expand", 0, band_expand(band), FALSE, fifo_expand(fifo))

BandExpandN ==
    \E n \in 0..MaxN : \E rs \in [1..n -> BOOLEAN] :
        LET e == band_expand_n(band, n, rs)
        IN  BandCall("expand_n", n, BandRes(e.b, None, e.pulls, e.panic), e.grew,
                     fifo_expand_times(fifo, e.calls))

BandPopFront == BandCall("pop_front", 0, band_pop_front(band), FALSE, fifo_pop_front(fifo))

BandPopBack ==
    \E oc \in BOOLEAN :
        BandCall("pop_back", 0, band_pop_back(band, oc), FALSE, fifo_pop_back(fifo))

BandNext ==
    \E rs \in [1..LEN -> BOOLEAN] :
        LET r == band_next(band, rs)
        IN  BandCall("next", 0, BandRes(r.b, r.ret, r.pulls, r.panic), FALSE,
                     fifo_pop_front(fifo_expand_times(fifo, r.calls)))

\* A call on the Tape
TapeCall(name, a, r) ==
    /\ kind = "Tape"
    /\ ~panicked
    /\ tape' = r.t
    /\ ret' = r.ret
    /\ grew' = r.grew
    /\ pulls' = r.pulls
    /\ op' = name
    /\ arg' = a
    /\ pre' = tape
    /\ UNCHANGED <<kind, LEN, source, band, fifo, panicked, returned>>

TapeProgress == TapeCall("progress", 0, tape_progress(tape))

TapeExpand == TapeCall("expand", 0, tape_expand(tape))

TapeExpandN == \E n \in 0..MaxTapeN : TapeCall("expand_n", n, tape_expand_n(tape, n))

TapeExpandWhile ==
    \E accept \in SUBSET Items :
        TapeCall("expand_while", accept, tape_expand_while(tape, accept))

TapePopFront == TapeCall("pop_front", 0, tape_pop_front(tape))

TapePopBack == TapeCall("pop_back", 0, tape_pop_back(tape))

TapeNext == TapeCall("next", 0, tape_next(tape))

Next ==
    \/ BandProgress
    \/ BandExpand
    \/ BandExpandN
    \/ BandPopFront
    \/ BandPopBack
    \/ BandNext
    \/ TapeProgress
    \/ TapeExpand
    \/ TapeExpandN
    \/ TapeExpandWhile
    \/ TapePopFront
    \/ TapePopBack
    \/ TapeNext

Spec == Init /\ [][Next]_vars

\* A ribbon driven as an Iterator only: every call is next
NextOnly ==
    \/ BandNext
    \/ TapeNext

SpecNextOnly == Init /\ [][NextOnly]_vars

\* A Band driven from the front only: any interleaving of expand, expand_n,
\* progress, pop_front and next
NextFront ==
    \/ BandProgress
    \/ BandExpand
    \/ BandExpandN
    \/ BandPopFront
    \/ BandNext

SpecFront == Init /\ [][NextFront]_vars

\* ================================================================= claims
\* The last call was `name`, made on a Band / on a Tape
BandDid(name) == kind = "Band" /\ op = name
TapeDid(name) == kind = "Tape" /\ op = name

\* The source still yields an item to the Band b / to the Tape t
BandSourceYields(b) == b.iter < source
TapeSourceYields(t) ==
    IF t.peeked # NotPeeked THEN t.peeked # None ELSE t.iter < source

\* The item the source yields next to the Band b
BandPending(b) == b.iter + 1

\* The items of the Band b as a caller sees them: peek_at(0), ..., peek_at(len - 1)
Logical(b) == [i \in 1..band_len(b) |-> band_peek_at(b, i - 1)]

\* The items the Band b holds in its slots
Held(b) == {b.tape[i] : i \in 0..(LEN - 1)} \ {None}

\* The least recently added of them: the source yields 1, 2, 3, ... in order
Oldest(b) == IF Held(b) = {} THEN None ELSE CHOOSE x \in Held(b) : \A y \in Held(b) : x <= y

\* C1: the length of a Band never exceeds its capacity LEN.
C1_CapacityInvariant == kind = "Band" => band_len(band) <= LEN

\* C2: progress on a Band at capacity whose source yields x returns the least
\* recently added held item, makes x the logical back item, keeps the other
\* held items in their order and keeps len at LEN.
C2_ProgressEvictsOldest ==
    (BandDid("progress") /\ band_len(pre) = LEN /\ BandSourceYields(pre)) =>
        /\ ret = Oldest(pre)
        /\ band_len(band) = LEN
        /\ Logical(band) = Append(Tail(Logical(pre)), BandPending(pre))

\* C3: expand on a Band at capacity whose source yields x pulls x, drops the
\* oldest held item, puts x at the logical back and keeps len at LEN.
C3_ExpandAtCapacity ==
    (BandDid("expand") /\ band_len(pre) = LEN /\ BandSourceYields(pre)) =>
        /\ band.iter = pre.iter + 1
        /\ band_len(band) = LEN
        /\ Logical(band) = Append(Tail(Logical(pre)), BandPending(pre))

\* C4 as stated: progress on a Band below capacity whose source yields x
\* returns no value, appends x at the logical back, removes no held item and
\* raises len by one.
C4_ProgressBelowCapacityGrows ==
    (BandDid("progress") /\ band_len(pre) < LEN /\ BandSourceYields(pre)) =>
        /\ ret = None
        /\ band_len(band) = band_len(pre) + 1
        /\ Logical(band) = Append(Logical(pre), BandPending(pre))

\* C4 as amended: progress on an empty Band (len = 0) whose source yields x
\* returns no value, appends x at the logical back and raises len to one; on a
\* Band below capacity that has a front item it returns that item, puts x at
\* the logical back and leaves len as it was.
C4_ProgressBelowCapacity ==
    (BandDid("progress") /\ band_len(pre) < LEN /\ BandSourceYields(pre)) =>
        /\ band_len(pre) = 0 =>
            /\ ret = None
            /\ band_len(band) = 1
            /\ Logical(band) = <<BandPending(pre)>>
        /\ band_peek_front(pre) # None =>
            /\ ret = band_peek_front(pre)
            /\ band_len(band) = band_len(pre)
            /\ band_peek_at(band, band_len(band) - 1) = BandPending(pre)

\* C4 witness: a progress on a Band that held items below its capacity
\* passed the front item through.
C4_Witness ==
    /\ BandDid("progress") /\ BandSourceYields(pre)
    /\ band_len(pre) > 0 /\ band_len(pre) < LEN
    /\ ret # None

\* C5: progress on a Band that holds an item, with a source that yields x,
\* returns the front item, makes x the back item and keeps len, at capacity or
\* not; on an empty Band it returns None and len becomes 1.
C5_ProgressPassThrough ==
    (BandDid("progress") /\ BandSourceYields(pre)) =>
        /\ band_len(pre) >= 1 =>
            /\ ret = Logical(pre)[1]
            /\ ret # None
            /\ band_len(band) = band_len(pre)
            /\ Logical(band) = Append(Tail(Logical(pre)), BandPending(pre))
        /\ band_len(pre) = 0 =>
            /\ ret = None
            /\ band_len(band) = 1

\* C6: progress on a Band or Tape whose source yields nothing more returns
\* None and leaves len, head and every held item as they were.
C6_ProgressNoOpOnExhaustion ==
    /\ (BandDid("progress") /\ ~BandSourceYields(pre)) =>
        /\ ret = None
        /\ band = pre
    /\ (TapeDid("progress") /\ ~TapeSourceYields(pre)) =>
        /\ ret = None
        /\ tape.tape = pre.tape

\* C6 witness: a progress was made on a full Band with items, its head
\* moved off slot 0, whose source was exhausted.
C6_Witness ==
    /\ BandDid("progress") /\ ~BandSourceYields(pre)
    /\ band_len(pre) = LEN /\ LEN > 1 /\ pre.head # 0
    /\ Held(pre) # {}

\* C7: expand on a Band or Tape whose source yields nothing more leaves len
\* and all held items as they were (and, on a Tape, returns false).
C7_ExpandNoOpOnExhaustion ==
    /\ (BandDid("expand") /\ ~BandSourceYields(pre)) =>
        /\ band_len(band) = band_len(pre)
        /\ band.tape = pre.tape
        /\ band.head = pre.head
    /\ (TapeDid("expand") /\ ~TapeSourceYields(pre)) =>
        /\ ~grew
        /\ tape.tape = pre.tape

\* C8: the Band agrees with the abstract FIFO run side by side with it:
\* len() is the FIFO's length and peek_at(i) its item i.
C8_IndexConsistency ==
    (kind = "Band" /\ ~panicked) =>
        /\ band_len(band) = Len(fifo.items)
        /\ \A i \in 0..(Len(fifo.items) - 1) : band_peek_at(band, i) = fifo.items[i + 1]

\* C9: peek_at(i) and peek_at_mut(i) return no value for every i >= len(),
\* on a Band (also for i below the capacity) and on a Tape.
C9_PeekOutOfRange ==
    \A i \in 0..(MaxLEN + MaxSource + 1) :
        /\ (kind = "Band" /\ i >= band_len(band)) =>
            band_peek_at(band, i) = None /\ band_peek_at_mut(band, i) = None
        /\ (kind = "Tape" /\ i >= tape_len(tape)) =>
            tape_peek_at(tape, i) = None /\ tape_peek_at_mut(tape, i) = None

\* C10: pop_front returns what peek_front would have returned just before
\* the call; if that is an item, len falls by exactly one; with len = 0 both
\* return no value and the ribbon is left as it was.
C10_PopPeekDuality ==
    /\ BandDid("pop_front") =>
        /\ ret = band_peek_front(pre)
        /\ ret # None => band_len(band) = band_len(pre) - 1
        /\ band_len(pre) = 0 => (ret = None /\ band = pre)
    /\ TapeDid("pop_front") =>
        /\ ret = tape_peek_front(pre)
        /\ ret # None => tape_len(tape) = tape_len(pre) - 1
        /\ tape_len(pre) = 0 => (ret = None /\ tape = pre)

\* C10 witness: a pop_front returned an item from a Band holding several
\* items with its head moved off slot 0.
C10_Witness ==
    /\ BandDid("pop_front")
    /\ ret # None
    /\ pre.head # 0
    /\ band_len(pre) > 1

\* The most recently added of the items the Band b holds in its slots
Newest(b) == IF Held(b) = {} THEN None ELSE CHOOSE x \in Held(b) : \A y \in Held(b) : x >= y

\* C11: pop_back on a Band with len > 0 removes and returns the newest held
\* item, lowers len by one and leaves head and the other items alone; with
\* len = 0 it returns None and changes nothing.
C11_PopBack ==
    BandDid("pop_back") =>
        /\ band_len(pre) > 0 =>
            /\ ret # None
            /\ ret = Newest(pre)
            /\ band_len(band) = band_len(pre) - 1
            /\ band.head = pre.head
            /\ Logical(band) = SubSeq(Logical(pre), 1, band_len(pre) - 1)
        /\ band_len(pre) = 0 => (ret = None /\ band = pre)

\* C12: on a Band with len > 0, whatever its head, peek_back and
\* peek_back_mut give the item peek_at(len - 1) gives, the newest held item.
C12_PeekBackIsLogicalBack ==
    (kind = "Band" /\ ~panicked /\ band_len(band) > 0) =>
        /\ band_peek_back(band) = band_peek_at(band, band_len(band) - 1)
        /\ band_peek_back_mut(band) = band_peek_at_mut(band, band_len(band) - 1)

\* C13: on a Band or Tape with len = 0, peek_back and peek_front return no
\* value, and the back index of the Band is head + 0: the subtraction
\* len - 1 saturates instead of wrapping.
C13_PeekBackOnEmpty ==
    /\ (kind = "Band" /\ band_len(band) = 0) =>
        /\ band_peek_back(band) = None
        /\ band_peek_back_mut(band) = None
        /\ band_peek_front(band) = None
        /\ tail(band) = band.head
    /\ (kind = "Tape" /\ tape_len(tape) = 0) =>
        /\ tape_peek_back(tape) = None
        /\ tape_peek_front(tape) = None

\* C13 witness: a Band of capacity 2 emptied by pops, its head off slot 0.
C13_Witness ==
    /\ kind = "Band" /\ LEN = 2
    /\ op \in {"pop_front", "pop_back"} /\ ret # None
    /\ band_len(band) = 0 /\ band.head # 0

\* C14: a fresh Band driven by next alone returns the items of the source
\* in source order (1, 2, ..., source) and then None for ever; it pulls the
\* source, at most LEN times, only in a call made while it is empty.
C14_BandPassThroughIterator ==
    /\ [][(kind = "Band" /\ op' = "next") =>
            ret' = IF op = "new" THEN (IF source >= 1 THEN 1 ELSE None)
                   ELSE IF ret # None /\ ret < source THEN ret + 1
                   ELSE None]_vars
    /\ [](BandDid("next") =>
            /\ ~panicked
            /\ pulls <= LEN
            /\ pulls > 0 => band_len(pre) = 0)

\* C14 witness: a Band over a source longer than its capacity returned the
\* last item of the source, refilled more than once, and then None.
C14_Witness ==
    /\ BandDid("next") /\ LEN > 1 /\ source > LEN
    /\ band.iter = source
    /\ ret = None

\* The item the source yields next to the Tape t (None if it yields none):
\* the looked-ahead item of the Peekable if it holds one
TapePending(t) ==
    IF t.peeked # NotPeeked THEN t.peeked
    ELSE IF t.iter < source THEN t.iter + 1 ELSE None

\* The number of source items the Tape t has taken into its buffer so far
TapeConsumed(t) ==
    IF t.peeked # NotPeeked /\ t.peeked # None THEN t.iter - 1 ELSE t.iter

\* C15: expand on a Tape returns true exactly when the source yields an
\* item; the item is then appended at the back, nothing is removed or
\* reordered and len grows by one; len is the number of items held.
C15_TapeExpandNeverEvicts ==
    /\ TapeDid("expand") =>
        /\ grew <=> TapeSourceYields(pre)
        /\ grew => /\ tape.tape = Append(pre.tape, TapePending(pre))
                   /\ tape_len(tape) = tape_len(pre) + 1
        /\ ~grew => tape.tape = pre.tape
    /\ kind = "Tape" =>
        tape_len(tape) = Cardinality({tape_peek_at(tape, i) : i \in 0..(MaxSource + 1)} \ {None})

\* C15 witness: an expand appended an item to a Tape that held several.
C15_Witness ==
    /\ TapeDid("expand") /\ grew
    /\ tape_len(pre) >= 2

\* C16: progress on a Tape with len > 0 whose source yields x returns the
\* front item, makes x the back item and keeps len; with len = 0 it returns
\* None and len becomes 1.
C16_TapeProgressSlides ==
    (TapeDid("progress") /\ TapeSourceYields(pre)) =>
        /\ tape_len(pre) > 0 =>
            /\ ret = tape_peek_front(pre)
            /\ ret # None
            /\ tape.tape = Append(Tail(pre.tape), TapePending(pre))
            /\ tape_peek_back(tape) = TapePending(pre)
            /\ tape_len(tape) = tape_len(pre)
        /\ tape_len(pre) = 0 =>
            /\ ret = None
            /\ tape_len(tape) = 1
            /\ tape_peek_back(tape) = TapePending(pre)

\* C16 witness: a progress passed the front item of a Tape of several items
\* through.
C16_Witness ==
    /\ TapeDid("progress") /\ TapeSourceYields(pre)
    /\ tape_len(pre) >= 2
    /\ ret # None

\* C17: next on a Tape that holds items returns the front item and takes
\* nothing from the source; next on an empty Tape takes exactly one item
\* from the source, if it yields one, and returns it; it returns None when
\* the Tape is empty and the source exhausted.  So successive next calls give
\* the held items front to back, then the rest of the source in order, then
\* None for ever.
C17_TapeIterator ==
    TapeDid("next") =>
        /\ tape_len(pre) > 0 =>
            /\ ret = tape_peek_front(pre)
            /\ tape.tape = Tail(pre.tape)
            /\ TapeConsumed(tape) = TapeConsumed(pre)
            /\ pulls = 0
        /\ (tape_len(pre) = 0 /\ TapeSourceYields(pre)) =>
            /\ ret = TapePending(pre)
            /\ tape.tape = <<>>
            /\ TapeConsumed(tape) = TapeConsumed(pre) + 1
        /\ (tape_len(pre) = 0 /\ ~TapeSourceYields(pre)) =>
            /\ ret = None
            /\ tape.tape = <<>>
            /\ TapeConsumed(tape) = TapeConsumed(pre)

\* C17 witness: two next calls in a row on a Tape, the second on the empty
\* Tape taking an item from the source.
C17_Witness ==
    /\ TapeDid("next") /\ tape_len(pre) = 0
    /\ ret # None /\ ret > 2
    /\ TapeConsumed(pre) = ret - 1

Min(a, c) == IF a <= c THEN a ELSE c

\* The items c + 1, ..., c + k of the source, in order
SourceRun(c, k) == [i \in 1..k |-> c + i]

\* The number of items the source still yields to the Band b / to the Tape t
BandRemaining(b) == source - b.iter
TapeRemaining(t) == source - TapeConsumed(t)

\* C18, Tape: expand_n(n) on a Tape whose source has r items left appends
\* exactly min(n, r) items at the back in source order and returns true iff
\* min(n, r) >= 1.
C18_TapeExpandN ==
    TapeDid("expand_n") =>
        LET k == Min(arg, TapeRemaining(pre))
        IN  /\ tape.tape = pre.tape \o SourceRun(TapeConsumed(pre), k)
            /\ grew <=> k >= 1

\* C18: expand_n(n) on a Tape appends min(n, r) items and returns true iff
\* min(n, r) >= 1; on a Band with len + n <= LEN it leaves len raised by
\* min(n, r).
C18_ExpandN ==
    /\ C18_TapeExpandN
    /\ (BandDid("expand_n") /\ band_len(pre) + arg <= LEN) =>
        band_len(band) = band_len(pre) + Min(arg, BandRemaining(pre))

\* The length of the longest prefix of the r items after item c of the
\* source whose every item is in accept
PrefixLen(c, r, accept) ==
    CHOOSE k \in 0..r :
        /\ \A i \in 1..k : (c + i) \in accept
        /\ k < r => (c + k + 1) \notin accept

\* C19: expand_while on a Tape appends exactly the longest prefix of the
\* pending source items whose every item satisfies the predicate, returns
\* true iff that prefix is not empty, and leaves the first item that fails
\* the predicate in the source: a following expand appends that very item.
C19_TapeExpandWhile ==
    TapeDid("expand_while") =>
        LET c == TapeConsumed(pre)
            r == TapeRemaining(pre)
            k == PrefixLen(c, r, arg)
        IN  /\ tape.tape = pre.tape \o SourceRun(c, k)
            /\ grew <=> k >= 1
            /\ TapeConsumed(tape) = c + k
            /\ k < r =>
                /\ TapePending(tape) = c + k + 1
                /\ tape_expand(tape).grew
                /\ tape_expand(tape).t.tape = Append(tape.tape, c + k + 1)
            /\ k = r => ~TapeSourceYields(tape)

\* C19 witness: an expand_while appended some items and stopped at an item
\* failing the predicate, with items satisfying it further on in the source.
C19_Witness ==
    /\ TapeDid("expand_while") /\ grew
    /\ TapeSourceYields(tape)
    /\ TapePending(tape) \notin arg
    /\ \E x \in arg : x > TapePending(tape) /\ x <= source

\* The physical slots of the logical run of the Band b: (head + j) % LEN for
\* 0 <= j < len
RunSlots(b) == {(b.head + j) % LEN : j \in 0..(band_len(b) - 1)}

\* C20: the occupied slots of a Band are exactly the len slots
\* (head + j) % LEN, 0 <= j < len; the newest item sits at
\* (head + len - 1) % LEN and every other slot is empty.
C20_BandRepresentation ==
    (kind = "Band" /\ ~panicked) =>
        /\ \A i \in 0..(LEN - 1) : band.tape[i] # None <=> i \in RunSlots(band)
        /\ Cardinality(RunSlots(band)) = band_len(band)
        /\ band_len(band) > 0 => band.tape[(band.head + band_len(band) - 1) % LEN] = Newest(band)

\* C21: a Band has len() == 0 exactly when every storage slot is empty.
C21_BandEmptiness ==
    (kind = "Band" /\ ~panicked) => (band_len(band) = 0 <=> Held(band) = {})

\* The pulls of the last call that found the source exhausted: the pulls it
\* made less the items it consumed (c0, c1: items consumed before and after)
PullsAfterExhaustion(c0, c1) == pulls - (c1 - c0)

\* C22: one call of expand_n makes no further expand call once an expand call
\* has reported no growth, so it pulls an exhausted source at most once, also
\* when earlier expand calls of the same loop grew the ribbon.  On a Band the
\* cases taken are those whose first expand call stores an item, where the
\* loop's flag does not depend on what a call that stores nothing reports;
\* Iterator::next of an empty Band is expand_n(LEN).
C22_ExpandNStopsEarly ==
    /\ ((BandDid("expand_n") \/ (BandDid("next") /\ band_is_empty(pre)))
            /\ ~panicked /\ band_expand_stores(pre)) =>
        PullsAfterExhaustion(pre.iter, band.iter) <= 1
    /\ TapeDid("expand_n") =>
        PullsAfterExhaustion(pre.iter, tape.iter) <= 1

\* Calls of next() the last Tape call made on its Peekable: a looked-ahead
\* result handed out counts as one, like a pull of the source behind it
PeekablePulls == pulls + (IF pre.peeked # NotPeeked /\ tape.peeked = NotPeeked THEN 1 ELSE 0)

\* C23: progress and expand pull the source exactly once, also on a Band at
\* capacity; pop_front and pop_back pull nothing and leave the source where
\* it was.
C23_PullsPerOperation ==
    /\ ((BandDid("progress") \/ BandDid("expand")) /\ ~panicked) => pulls = 1
    /\ (BandDid("pop_front") \/ BandDid("pop_back")) =>
        pulls = 0 /\ band.iter = pre.iter
    /\ (TapeDid("progress") \/ TapeDid("expand")) => PeekablePulls = 1
    /\ (TapeDid("pop_front") \/ TapeDid("pop_back")) =>
        pulls = 0 /\ tape.iter = pre.iter /\ tape.peeked = pre.peeked

\* C24: no Band call aborts: head stays in 0..LEN-1, every array access is
\* inside the array (an access outside it panics), and pop_back never runs
\* `len -= 1` at len == 0.
C24_NoAbort ==
    kind = "Band" =>
        /\ ~panicked
        /\ band.head \in 0..(LEN - 1)
        /\ tail(band) \in 0..(LEN - 1)
        /\ (op = "pop_back" /\ ret # None) => band_len(pre) > 0

\* C25: on a Band over distinct items, the items pop_front, progress and
\* next return come out in source order (each was pulled later than every
\* item returned before it), and an expand made while len() < LEN overwrites
\* or loses no held item.
C25_OrderPreserved ==
    /\ [][(kind = "Band" /\ op' \in {"pop_front", "progress", "next"} /\ ret' # None) =>
            ret' > returned]_vars
    /\ []((BandDid("expand") /\ ~panicked /\ band_len(pre) < LEN) =>
            Held(pre) \subseteq Held(band))

====
